---- MODULE Spec2Model ----
(***************************************************************************)
(* Model of scripts/demo/mcp-demo-workflow.py: the connectivity check, the *)
(* tool discovery query, the four document workflows, main's summary and   *)
(* the __main__ guard, as a sequential state machine over the workspace    *)
(* directory, the chat-completion endpoint and the process exit status.    *)
(*                                                                         *)
(* Environment:                                                            *)
(*  - an API call (the request and, where the code reads it, the access to *)
(*    response.choices[0].message.content, both inside the same try) either*)
(*    completes or raises an Exception;                                    *)
(*  - the gateway's tools may create the file the prompt asks for while a  *)
(*    request is in flight, whether or not the call then raises; nothing   *)
(*    removes files from the workspace;                                    *)
(*  - Path.mkdir and Path.write_text may raise OSError; Path.exists and    *)
(*    Path.glob do not (pathlib swallows ENOENT/ENOTDIR, glob swallows     *)
(*    scandir errors);                                                     *)
(*  - WORKSPACE_DIR names either nothing or a directory;                   *)
(*  - a KeyboardInterrupt may arrive at any step of main.                  *)
(* File names are sequences of one-character strings so that glob matching *)
(* and Path.stem are computed on the characters.                           *)
(***************************************************************************)
EXTENDS Integers, Sequences, FiniteSets, TLC

\* Largest number of files in the workspace when the script starts.
MaxInitFiles == 2

\* ------------------------------------------------------------ file names
NameDocPdf == <<"d","o","c",".","p","d","f">>
NameReport == <<"r","e","p","o","r","t",".","t","x","t">>
NameNotes == <<"n","o","t","e","s",".","v","2",".","t","x","t">>
NameReadme == <<"r","e","a","d","m","e",".","m","d">>
\* sample_file = workspace / "sample.txt"
NameSample == <<"s","a","m","p","l","e",".","t","x","t">>
\* summary_file = workspace / "summary.txt"
NameSummary == <<"s","u","m","m","a","r","y",".","t","x","t">>

\* The names a workspace may hold before the script runs.
InitialNames ==
  {NameDocPdf, NameReport, NameNotes, NameReadme, NameSample, NameSummary}

PdfSuffix == <<".","p","d","f">>
TxtSuffix == <<".","t","x","t">>
ConvertedSuffix == <<"_","c","o","n","v","e","r","t","e","d",".","m","d">>
NoFile == << >>

EndsWith(name, suffix) ==
  /\ Len(name) >= Len(suffix)
  /\ SubSeq(name, Len(name) - Len(suffix) + 1, Len(name)) = suffix

\* A glob that ignores the pattern ("*").
Glob_All(fs, suffix) == fs

\* workspace.glob("*" + suffix): the entries whose name ends with the suffix.
Glob(fs, suffix) == {f \in fs : EndsWith(f, suffix)}

\* Index of the last "." of the name, 0 when there is none (str.rfind + 1).
RFindDot(name) ==
  LET dots == {i \in 1..Len(name) : name[i] = "."}
  IN IF dots = {} THEN 0 ELSE CHOOSE i \in dots : \A j \in dots : j <= i

FindDot(name) ==
  LET dots == {i \in 1..Len(name) : name[i] = "."}
  IN IF dots = {} THEN 0 ELSE CHOOSE i \in dots : \A j \in dots : i <= j

\* A stem cut at the first dot instead of the last.
Stem_FirstDot(name) ==
  LET i == FindDot(name)
  IN IF 1 < i /\ i < Len(name) THEN SubSeq(name, 1, i - 1) ELSE name

\* source_file.stem: the name up to its last dot, the whole name when the
\* last dot is leading, trailing or missing.
Stem(name) ==
  LET i == RFindDot(name)
  IN IF 1 < i /\ i < Len(name) THEN SubSeq(name, 1, i - 1) ELSE name

\* target_file = workspace / f"{source_file.stem}_converted.md"
TargetFile(source) == Stem(source) \o ConvertedSuffix

\* ------------------------------------------------------------ the runner
Workflows == 1..4

WorkflowNames ==
  << "Workflow 1: Read PDF",
     "Workflow 2: Multi-Step Processing",
     "Workflow 3: List and Process",
     "Workflow 4: Document Conversion" >>

Callers == {"check", "tools", "w1", "w2", "w3", "w4"}

\* "main" runs the script; "w1".."w4" call one workflow function alone.
Modes == {"main", "w1", "w2", "w3", "w4"}

EntryPC ==
  [m \in Modes |->
     CASE m = "main" -> "check_connection"
       [] m = "w1" -> "w1_ensure"
       [] m = "w2" -> "w2_ensure"
       [] m = "w3" -> "w3_ensure"
       [] m = "w4" -> "w4_ensure"]

WorkflowEntry == <<"w1_ensure", "w2_ensure", "w3_ensure", "w4_ensure">>

VARIABLES
  mode,        \* what is being run
  pc,          \* position in the script
  wsExists,    \* the workspace directory exists
  files,       \* names of the files in the workspace
  wsExists0,   \* the workspace directory existed at the start
  files0,      \* the files in the workspace at the start
  created,     \* the script created the workspace directory
  written,     \* names of the files the script wrote
  started,     \* the workflow functions entered, in order
  apiCalls,    \* requests sent, per caller
  callOK,      \* outcome of each caller's API call: "none", "ok", "raised"
  errorIn,     \* workflows in which an Exception was raised
  ret,         \* each workflow's return value: "none", "true", "false"
  results,     \* main's results list
  printed,     \* the diagnostic lines printed so far
  pdf_path,    \* workflow 1's chosen PDF
  source_file, \* workflow 4's chosen text file
  target_file, \* workflow 4's derived target
  exc,         \* exception propagating out of main: "none", "Exception",
               \* "KeyboardInterrupt"
  mainReturned,\* main ran to its return statement
  code,        \* the status handed to sys.exit
  exitCode     \* the process exit code, -1 while running

vars ==
  << mode, pc, wsExists, files, wsExists0, files0, created, written, started,
     apiCalls, callOK, errorIn, ret, results, printed, pdf_path, source_file,
     target_file, exc, mainReturned, code, exitCode >>

fsVars == << wsExists, files, created, written >>
wfLocals == << pdf_path, source_file, target_file >>
exitVars == << exc, mainReturned, code, exitCode >>
histVars == << mode, wsExists0, files0 >>

Init ==
  /\ mode \in Modes
  /\ pc = EntryPC[mode]
  /\ wsExists \in BOOLEAN
  /\ files \in SUBSET InitialNames
  /\ Cardinality(files) <= MaxInitFiles
  /\ (~wsExists => files = {})
  /\ wsExists0 = wsExists
  /\ files0 = files
  /\ created = FALSE
  /\ written = {}
  /\ started = << >>
  /\ apiCalls = [c \in Callers |-> 0]
  /\ callOK = [c \in Callers |-> "none"]
  /\ errorIn = {}
  /\ ret = [w \in Workflows |-> "none"]
  /\ results = << >>
  /\ printed = {}
  /\ pdf_path = NoFile
  /\ source_file = NoFile
  /\ target_file = NoFile
  /\ exc = "none"
  /\ mainReturned = FALSE
  /\ code = -1
  /\ exitCode = -1


\* ------------------------------------------------------------ helpers
\* A connectivity check whose failure does not stop the run.
AfterConnection_Continue(ok) == "list_tools"

\* main, lines 295-296: a failed connectivity check leads to sys.exit(1).
AfterConnection(ok) == IF ok THEN "list_tools" ELSE "sys_exit"

\* A runner that goes to the summary at the first failed workflow.
AfterWorkflow_StopOnFailure(w, ok) ==
  IF w < 4 /\ ok THEN WorkflowEntry[w + 1] ELSE "summary"

\* main, lines 309-315: the next workflow is called whatever the last one
\* returned; the summary follows the fourth.
AfterWorkflow(w, ok) == IF w < 4 THEN WorkflowEntry[w + 1] ELSE "summary"

\* A status that is 0 as soon as one workflow passed.
ExitStatus_AnyPassed(passed, total) == IF passed > 0 THEN 0 ELSE 1

\* main, lines 324-329.
ExitStatus(passed, total) == IF passed = total THEN 0 ELSE 1

\* A guard without its KeyboardInterrupt clause: the interpreter's own status.
HandlerStatus_Unhandled(e) == IF e = "KeyboardInterrupt" THEN 130 ELSE 1

\* __main__ guard, lines 335-342: both handlers call sys.exit(1).
HandlerStatus(e) == 1

\* A workflow 2 that fails when the summary file is missing.
W2Return_Strict(summaryExists) == summaryExists

\* workflow_2_multi_step_processing, line 198: return True on both branches
\* of the summary-file check.
W2Return(summaryExists) == TRUE

\* A conversion that fails when the converted file is missing.
W4Return_Strict(targetExists) == targetExists

\* workflow_4_document_conversion, line 281.
W4Return(targetExists) == TRUE

Passed(rs) == Cardinality({i \in 1..Len(rs) : rs[i].success})

BoolStr(b) == IF b THEN "true" ELSE "false"

\* The workflow function returns `ok`: to main's results.append in a run of
\* the script, to the caller otherwise.
Return(w, ok) ==
  /\ ret' = [ret EXCEPT ![w] = BoolStr(ok)]
  /\ IF mode = "main"
       THEN /\ results' = Append(results, [name |-> WorkflowNames[w], success |-> ok])
            /\ pc' = AfterWorkflow(w, ok)
       ELSE /\ results' = results
            /\ pc' = "returned"

\* An Exception raised outside any try of workflow w leaves the function.
Raise(w) ==
  /\ exc' = "Exception"
  /\ errorIn' = errorIn \cup {w}
  /\ pc' = "raised"

\* An entry that goes on without creating the missing directory.
EnsureWorkspace_NoMkdir(w, next) ==
  /\ started' = Append(started, w)
  /\ pc' = next
  /\ UNCHANGED << histVars, fsVars, apiCalls, callOK, errorIn, ret, results,
                  printed, wfLocals, exitVars >>

\* if not workspace.exists(): workspace.mkdir(parents=True, exist_ok=True)
\* (lines 89-93, 138-140, 210-212, 243-245); mkdir is outside every try.
EnsureWorkspace(w, next) ==
  /\ started' = Append(started, w)
  /\ \/ /\ wsExists
        /\ pc' = next
        /\ UNCHANGED << fsVars, printed, exc, errorIn >>
     \/ /\ ~wsExists
        /\ wsExists' = TRUE
        /\ created' = TRUE
        /\ printed' = IF w = 1 THEN printed \cup {"WorkspaceNotFound"} ELSE printed
        /\ pc' = next
        /\ UNCHANGED << files, written, exc, errorIn >>
     \/ /\ ~wsExists
        /\ printed' = IF w = 1 THEN printed \cup {"WorkspaceNotFound"} ELSE printed
        /\ Raise(w)
        /\ UNCHANGED fsVars
  /\ UNCHANGED << histVars, apiCalls, callOK, ret, results, wfLocals,
                  mainReturned, code, exitCode >>

\* client.chat.completions.create(...) and the read of the response by
\* `caller`: one more request sent, and its outcome.
ApiCall(caller, ok) ==
  /\ apiCalls' = [apiCalls EXCEPT ![caller] = @ + 1]
  /\ callOK' = [callOK EXCEPT ![caller] = IF ok THEN "ok" ELSE "raised"]


\* ------------------------------------------------------------ main, part 1
\* check_llamagate_connection (lines 46-60) and main's test of it (295-296).
CheckConnection ==
  /\ pc = "check_connection"
  /\ \E ok \in BOOLEAN :
       /\ ApiCall("check", ok)
       /\ printed' = printed \cup {IF ok THEN "ConnectionOK" ELSE "ConnectionFailed"}
       /\ code' = IF ok THEN code ELSE 1
       /\ pc' = AfterConnection(ok)
  /\ UNCHANGED << histVars, fsVars, started, errorIn, ret, results, wfLocals,
                  exc, mainReturned, exitCode >>

\* list_available_tools (lines 63-81) and main's "Continuing anyway" (299-300).
ListTools ==
  /\ pc = "list_tools"
  /\ \E ok \in BOOLEAN :
       /\ ApiCall("tools", ok)
       /\ printed' = IF ok THEN printed \cup {"ToolList"}
                          ELSE printed \cup {"ToolsFailed", "ContinuingAnyway"}
  /\ pc' = "w1_ensure"
  /\ UNCHANGED << histVars, fsVars, started, errorIn, ret, results, wfLocals,
                  exitVars >>

\* ------------------------------------------------------------ workflow 1
W1Ensure == pc = "w1_ensure" /\ EnsureWorkspace(1, "w1_glob")

\* lines 96-103: pdf_files = list(workspace.glob("*.pdf")); return False when
\* empty, else pdf_path = pdf_files[0] (the directory order is not fixed).
W1Glob ==
  /\ pc = "w1_glob"
  /\ LET pdf_files == Glob(files, PdfSuffix)
     IN \/ /\ pdf_files = {}
           /\ printed' = printed \cup {"NoPdf"}
           /\ Return(1, FALSE)
           /\ UNCHANGED pdf_path
        \/ /\ pdf_files # {}
           /\ \E p \in pdf_files : pdf_path' = p
           /\ printed' = printed \cup {"FoundPdf"}
           /\ pc' = "w1_call"
           /\ UNCHANGED << ret, results >>
  /\ UNCHANGED << histVars, fsVars, started, apiCalls, callOK, errorIn,
                  source_file, target_file, exitVars >>

\* lines 106-131: the request and the printing of the response, in one try.
W1Call ==
  /\ pc = "w1_call"
  /\ \E ok \in BOOLEAN :
       /\ ApiCall("w1", ok)
       /\ errorIn' = IF ok THEN errorIn ELSE errorIn \cup {1}
       /\ printed' = printed \cup {IF ok THEN "PdfSummary" ELSE "PdfFailed"}
       /\ Return(1, ok)
  /\ UNCHANGED << histVars, fsVars, started, wfLocals, exitVars >>

\* ------------------------------------------------------------ workflow 2
W2Ensure == pc = "w2_ensure" /\ EnsureWorkspace(2, "w2_sample")

\* A workflow 2 that never writes the sample file.
W2Sample_Skip ==
  /\ pc = "w2_sample"
  /\ pc' = "w2_call"
  /\ UNCHANGED << histVars, fsVars, started, apiCalls, callOK, errorIn, ret,
                  results, printed, wfLocals, exitVars >>

\* lines 143-162: sample.txt is written only when it does not exist; the
\* write is outside the try.
W2Sample ==
  /\ pc = "w2_sample"
  /\ \/ /\ NameSample \in files
        /\ pc' = "w2_call"
        /\ UNCHANGED << files, written, printed, exc, errorIn >>
     \/ /\ NameSample \notin files
        /\ files' = files \cup {NameSample}
        /\ written' = written \cup {NameSample}
        /\ printed' = printed \cup {"CreatingSample"}
        /\ pc' = "w2_call"
        /\ UNCHANGED << exc, errorIn >>
     \/ /\ NameSample \notin files
        /\ printed' = printed \cup {"CreatingSample"}
        /\ Raise(2)
        /\ UNCHANGED << files, written >>
  /\ UNCHANGED << histVars, wsExists, created, started, apiCalls, callOK, ret,
                  results, wfLocals, mainReturned, code, exitCode >>

\* lines 165-188 and 199-203: the request; the gateway may save summary.txt
\* while it is in flight.
W2Call ==
  /\ pc = "w2_call"
  /\ \E ok \in BOOLEAN, made \in SUBSET {NameSummary} :
       /\ ApiCall("w2", ok)
       /\ files' = files \cup made
       /\ \/ /\ ok
             /\ printed' = printed \cup {"ProcessingResult"}
             /\ pc' = "w2_verify"
             /\ UNCHANGED << errorIn, ret, results >>
          \/ /\ ~ok
             /\ printed' = printed \cup {"ProcessFailed"}
             /\ errorIn' = errorIn \cup {2}
             /\ Return(2, FALSE)
  /\ UNCHANGED << histVars, wsExists, created, written, started, wfLocals,
                  exitVars >>

\* lines 190-198: the summary-file check and the return.
W2Verify ==
  /\ pc = "w2_verify"
  /\ LET found == NameSummary \in files
     IN /\ printed' = printed \cup {IF found THEN "SummaryCreated" ELSE "SummaryNotFound"}
        /\ Return(2, W2Return(found))
  /\ UNCHANGED << histVars, fsVars, started, apiCalls, callOK, errorIn,
                  wfLocals, exitVars >>

\* ------------------------------------------------------------ workflow 3
W3Ensure == pc = "w3_ensure" /\ EnsureWorkspace(3, "w3_call")

\* lines 215-236.
W3Call ==
  /\ pc = "w3_call"
  /\ \E ok \in BOOLEAN :
       /\ ApiCall("w3", ok)
       /\ errorIn' = IF ok THEN errorIn ELSE errorIn \cup {3}
       /\ printed' = printed \cup {IF ok THEN "FileListing" ELSE "ListFailed"}
       /\ Return(3, ok)
  /\ UNCHANGED << histVars, fsVars, started, wfLocals, exitVars >>

\* ------------------------------------------------------------ workflow 4
W4Ensure == pc = "w4_ensure" /\ EnsureWorkspace(4, "w4_glob")

\* lines 247-255: text_files = list(workspace.glob("*.txt")); return False
\* when empty, else source_file = text_files[0] and the derived target.
W4Glob ==
  /\ pc = "w4_glob"
  /\ LET text_files == Glob(files, TxtSuffix)
     IN \/ /\ text_files = {}
           /\ printed' = printed \cup {"NoTxt"}
           /\ Return(4, FALSE)
           /\ UNCHANGED << source_file, target_file >>
        \/ /\ text_files # {}
           /\ \E f \in text_files :
                /\ source_file' = f
                /\ target_file' = TargetFile(f)
           /\ pc' = "w4_call"
           /\ UNCHANGED << printed, ret, results >>
  /\ UNCHANGED << histVars, fsVars, started, apiCalls, callOK, errorIn,
                  pdf_path, exitVars >>

\* lines 258-274 and 282-284: the request; the gateway may save the target
\* while it is in flight.
W4Call ==
  /\ pc = "w4_call"
  /\ \E ok \in BOOLEAN, made \in SUBSET {target_file} :
       /\ ApiCall("w4", ok)
       /\ files' = files \cup made
       /\ \/ /\ ok
             /\ printed' = printed \cup {"ConversionResult"}
             /\ pc' = "w4_verify"
             /\ UNCHANGED << errorIn, ret, results >>
          \/ /\ ~ok
             /\ printed' = printed \cup {"ConvertFailed"}
             /\ errorIn' = errorIn \cup {4}
             /\ Return(4, FALSE)
  /\ UNCHANGED << histVars, wsExists, created, written, started, wfLocals,
                  exitVars >>

\* lines 276-281: the target-file check and the return.
W4Verify ==
  /\ pc = "w4_verify"
  /\ LET found == target_file \in files
     IN /\ printed' = printed \cup {IF found THEN "ConvertedCreated" ELSE "ConvertedNotFound"}
        /\ Return(4, W4Return(found))
  /\ UNCHANGED << histVars, fsVars, started, apiCalls, callOK, errorIn,
                  wfLocals, exitVars >>

\* ------------------------------------------------------------ main, part 2
\* lines 314-329: the summary table and main's return value.
Summary ==
  /\ pc = "summary"
  /\ LET passed == Passed(results)
         total == Len(results)
     IN /\ code' = ExitStatus(passed, total)
        /\ printed' = printed \cup {"WorkflowSummary",
                                     IF passed = total THEN "AllPassed" ELSE "SomeFailed"}
  /\ mainReturned' = TRUE
  /\ pc' = "sys_exit"
  /\ UNCHANGED << histVars, fsVars, started, apiCalls, callOK, errorIn, ret,
                  results, wfLocals, exc, exitCode >>

\* sys.exit(1) at line 296 and sys.exit(main()) at line 334: SystemExit is
\* caught by neither clause of the guard.
SysExit ==
  /\ pc = "sys_exit"
  /\ exitCode' = code
  /\ pc' = "exited"
  /\ UNCHANGED << histVars, fsVars, started, apiCalls, callOK, errorIn, ret,
                  results, printed, wfLocals, exc, mainReturned, code >>

\* A KeyboardInterrupt arrives while the guard's try is running.
Interrupt ==
  /\ mode = "main"
  /\ pc \notin {"raised", "exited"}
  /\ exc' = "KeyboardInterrupt"
  /\ pc' = "raised"
  /\ UNCHANGED << histVars, fsVars, started, apiCalls, callOK, errorIn, ret,
                  results, printed, wfLocals, mainReturned, code, exitCode >>

\* lines 335-337.
GuardKeyboardInterrupt ==
  /\ mode = "main"
  /\ pc = "raised"
  /\ exc = "KeyboardInterrupt"
  /\ printed' = printed \cup {"Interrupted"}
  /\ exitCode' = HandlerStatus(exc)
  /\ pc' = "exited"
  /\ UNCHANGED << histVars, fsVars, started, apiCalls, callOK, errorIn, ret,
                  results, wfLocals, exc, mainReturned, code >>

\* lines 338-342.
GuardException ==
  /\ mode = "main"
  /\ pc = "raised"
  /\ exc = "Exception"
  /\ printed' = printed \cup {"UnexpectedError"}
  /\ exitCode' = HandlerStatus(exc)
  /\ pc' = "exited"
  /\ UNCHANGED << histVars, fsVars, started, apiCalls, callOK, errorIn, ret,
                  results, wfLocals, exc, mainReturned, code >>

Next ==
  \/ CheckConnection
  \/ ListTools
  \/ W1Ensure
  \/ W1Glob
  \/ W1Call
  \/ W2Ensure
  \/ W2Sample
  \/ W2Call
  \/ W2Verify
  \/ W3Ensure
  \/ W3Call
  \/ W4Ensure
  \/ W4Glob
  \/ W4Call
  \/ W4Verify
  \/ Summary
  \/ SysExit
  \/ Interrupt
  \/ GuardKeyboardInterrupt
  \/ GuardException

Spec == Init /\ [][Next]_vars

\* The script is one thread: a step that can be taken is taken.
FairSpec == Init /\ [][Next]_vars /\ WF_vars(Next)


\* ------------------------------------------------------------ properties
Exited == pc = "exited"

AllRecordedPassed == \A i \in 1..Len(results) : results[i].success

SummaryPrinted == "WorkflowSummary" \in printed

RecordedNames == [i \in 1..Len(results) |-> results[i].name]

\* C1 as stated: in every terminating run the exit code is 0 if and only if
\* every recorded workflow result has success = true.
C1_Original == Exited => (exitCode = 0 <=> AllRecordedPassed)

\* C1 amended: the exit code is 0 if and only if main ran to its return with
\* four recorded results that all have success = true and no interrupt cut
\* the run short; a run that ends any other way (failed connectivity check,
\* escaping exception, keyboard interrupt) exits with 1 whatever was recorded.
C1_ExitCode ==
  Exited =>
    /\ exitCode = 0 <=>
         (mainReturned /\ exc = "none" /\ Len(results) = 4 /\ AllRecordedPassed)
    /\ exitCode # 0 => exitCode = 1
    /\ (mainReturned /\ exc = "none") => (exitCode = 0 <=> AllRecordedPassed)

\* A run of main that returned with one workflow failed and one passed.
C1_Witness ==
  /\ Exited /\ mainReturned /\ exc = "none" /\ exitCode = 1
  /\ ~results[1].success /\ results[2].success

\* C2 as stated: an error raised at any point of a workflow function makes it
\* return failure, a (name, false) entry is recorded and main goes on to its
\* summary; no error leaves the workflow function.
C2_Original ==
  mode = "main" =>
    \A w \in errorIn :
      /\ ret[w] # "true"
      /\ (Exited /\ exc # "KeyboardInterrupt") =>
           /\ SummaryPrinted
           /\ Len(results) >= w
           /\ ~results[w].success

\* C3: after a failed connectivity check no tool discovery, no workflow, no
\* further request, no change of the workspace and no recorded result; the
\* process exits with 1.
C3_ConnectionAbort ==
  callOK["check"] = "raised" =>
    /\ callOK["tools"] = "none"
    /\ started = << >>
    /\ \A c \in Callers : apiCalls[c] = (IF c = "check" THEN 1 ELSE 0)
    /\ wsExists = wsExists0 /\ files = files0 /\ ~created /\ written = {}
    /\ results = << >> /\ \A w \in Workflows : ret[w] = "none"
    /\ ~SummaryPrinted
    /\ Exited => exitCode = 1

\* The process has exited after a failed check, the workspace still absent.
C3_Witness ==
  Exited /\ callOK["check"] = "raised" /\ exc = "none" /\ ~wsExists0 /\ ~wsExists

\* C4: the recorded results are a prefix of the fixed order and the workflows
\* are entered in that order, once each; a returned result, failure included,
\* is followed by the entry of the next workflow unless an interrupt stops
\* the run; when the summary is printed the four results are there, in order.
C4_FixedOrder ==
  mode = "main" =>
    /\ Len(results) <= 4 /\ Len(started) <= 4
    /\ \A i \in 1..Len(results) : results[i].name = WorkflowNames[i]
    /\ \A i \in 1..Len(started) : started[i] = i
    /\ \A i \in 1..Len(results) :
         i < 4 => \/ Len(started) > i
                  \/ pc = WorkflowEntry[i + 1]
                  \/ exc = "KeyboardInterrupt"
    /\ (callOK["tools"] # "none" /\ exc # "KeyboardInterrupt") =>
         (Len(started) >= 1 \/ pc = "w1_ensure")
    /\ SummaryPrinted =>
         /\ RecordedNames = WorkflowNames
         /\ started = <<1, 2, 3, 4>>

\* The summary is printed after tool discovery and three workflows failed.
C4_Witness ==
  /\ mode = "main" /\ SummaryPrinted /\ callOK["tools"] = "raised"
  /\ ~results[1].success /\ ~results[2].success /\ ~results[3].success
  /\ results[4].success


\* C5: workflow 2 prints 'Summary file created' only when summary.txt is in
\* the workspace after its API call returned, prints 'Summary file not found'
\* when the file is absent, and returns the success of the API call either
\* way.
C5_SummaryCheck ==
  /\ "SummaryCreated" \in printed =>
       (NameSummary \in files /\ callOK["w2"] = "ok")
  /\ (ret[2] # "none" /\ callOK["w2"] = "ok" /\ NameSummary \notin files) =>
       ("SummaryNotFound" \in printed /\ "SummaryCreated" \notin printed)
  /\ (ret[2] # "none" /\ callOK["w2"] # "none") =>
       ret[2] = BoolStr(callOK["w2"] = "ok")

\* Workflow 2 returned true with the warning printed and no summary file.
C5_Witness ==
  /\ ret[2] = "true" /\ "SummaryNotFound" \in printed
  /\ NameSummary \notin files /\ callOK["w2"] = "ok"

\* C6: the workspace directory exists at every file access of a workflow, at
\* every API request of a workflow and after every workflow that returned; a
\* directory that was missing has been created by then.
C6_WorkspaceExists ==
  /\ pc \in {"w1_glob", "w2_sample", "w2_verify", "w4_glob", "w4_verify"} => wsExists
  /\ pc \in {"w1_call", "w2_call", "w3_call", "w4_call"} => wsExists
  /\ (\E w \in Workflows : ret[w] # "none") => wsExists
  /\ (wsExists /\ ~wsExists0) => created


\* Workflow 1 is about to glob a directory that it has just created.
C6_Witness == pc = "w1_glob" /\ ~wsExists0 /\ wsExists /\ created

C8_NoPdf ==
  /\ (ret[1] # "none" /\ NameDocPdf \notin files0) =>
       (ret[1] = "false" /\ apiCalls["w1"] = 0 /\ "NoPdf" \in printed)
  /\ (1 \in errorIn /\ wsExists) => NameDocPdf \in files0
  /\ apiCalls["w1"] <= 1
  /\ apiCalls["w1"] = 1 =>
       (pdf_path = NameDocPdf /\ pdf_path \in files0)

\* Workflow 1 returned failure in a directory it created, with no request.
C8_Witness ==
  /\ ret[1] = "false" /\ ~wsExists0 /\ created /\ apiCalls["w1"] = 0
  /\ 1 \notin errorIn

NameReportConverted ==
  <<"r","e","p","o","r","t","_","c","o","n","v","e","r","t","e","d",".","m","d">>

\* The name without its last four characters (".txt"), then "_converted.md".
ExpectedTarget(source) ==
  SubSeq(source, 1, Len(source) - 4) \o ConvertedSuffix

\* C9: workflow 4 targets <stem>_converted.md for the .txt file it chose
\* (report_converted.md for report.txt); with no .txt file it returns failure
\* without a request; otherwise it returns the success of its API call,
\* whether or not the target exists afterwards.
C9_Conversion ==
  /\ (mode = "w4" /\ ret[4] # "none" /\
      files0 \cap {NameReport, NameNotes, NameSample, NameSummary} = {}) =>
       (ret[4] = "false" /\ apiCalls["w4"] = 0 /\ source_file = NoFile)
  /\ source_file # NoFile =>
       /\ source_file \in files /\ EndsWith(source_file, TxtSuffix)
       /\ target_file = ExpectedTarget(source_file)
  /\ (mode = "w4" /\ files0 = {NameReport} /\ pc \notin {"w4_ensure", "w4_glob"}) =>
       target_file = NameReportConverted
  /\ apiCalls["w4"] >= 1 => source_file # NoFile
  /\ (ret[4] # "none" /\ source_file # NoFile) =>
       ret[4] = BoolStr(callOK["w4"] = "ok")

\* Workflow 4 returned true for notes.v2.txt although no target was created.
C9_Witness ==
  /\ ret[4] = "true" /\ source_file = NameNotes
  /\ target_file \notin files /\ callOK["w4"] = "ok"

\* C10: in a run of main, sample.txt is present after workflow 2 returned and
\* an existing sample.txt is never rewritten, so workflow 4 finds a .txt
\* file: it never prints 'No text files found' and its recorded result is the
\* success of its API call.
C10_SampleFeedsConversion ==
  /\ ret[2] # "none" => NameSample \in files
  /\ NameSample \in files0 => NameSample \notin written
  /\ mode = "main" =>
       /\ "NoTxt" \notin printed
       /\ ret[4] # "none" => source_file # NoFile
       /\ Len(results) = 4 =>
            results[4].success = (callOK["w4"] = "ok")

\* main recorded workflow 4's result in a workspace that began without any
\* .txt file, workflow 2 having written sample.txt.
C10_Witness ==
  /\ mode = "main" /\ Len(results) = 4 /\ NameSample \in written
  /\ files0 \cap {NameReport, NameNotes, NameSample, NameSummary} = {}
  /\ results[4].success

====
